---- MODULE Spec2Model ----
(***************************************************************************)
(* Model of src/connection/UndiciConnection.ts: one Connection owning one  *)
(* undici Pool, with request() calls running concurrently on it and        *)
(* close().  Each await of request() is a suspension point; what runs      *)
(* between two suspension points is one action.  The Pool is the external  *)
(* transport: it resolves or rejects a pending request, delivers body      *)
(* chunks, and reports UND_ERR_ABORTED for a request whose signal fired.   *)
(***************************************************************************)
EXTENDS Integers, Sequences, FiniteSets, TLC

\* ------------------------------------------------------------------ bounds
MaxTimeout == 2
MaxPathLen == 1
MaxChunks == 2
MaxCloses == 2

\* The request() calls of one run; each is issued at most once.
Calls == {1, 2}

\* ------------------------------------------------- constants of the source
\* buffer.constants.MAX_LENGTH and MAX_STRING_LENGTH, scaled down
MAX_BUFFER_LENGTH == 3
MAX_STRING_LENGTH == 2
\* the largest value either ceiling takes when the ceilings are left open
MaxCeiling == 3

\* '?' (U+003F), which joins path and querystring
QuestionMark == 63

\* UTF-16 code units the caller may put in a path: U+0020, U+0021, U+00FF, U+0100
PathChars == {32, 33, 255, 256}

RECURSIVE SeqsUpTo(_, _)
SeqsUpTo(S, n) ==
  IF n = 0 THEN {<< >>}
  ELSE LET shorter == SeqsUpTo(S, n - 1)
       IN shorter \cup {Append(s, x) : s \in {t \in shorter : Len(t) = n - 1}, x \in S}

Paths == SeqsUpTo(PathChars, MaxPathLen) \ {<< >>}
QueryStrings == SeqsUpTo(PathChars, 1)

\* params.path + (querystring == null || querystring === '' ? '' : `?${querystring}`)
FinalPath(path, qsNull, qs) ==
  IF qsNull \/ qs = << >> THEN path ELSE path \o <<QuestionMark>> \o qs

\* the test with the lower end of the range off by one: U+0020 passes
INVALID_PATH_REGEX_AllowsSpace(path) ==
  \E i \in 1..Len(path) : path[i] < 32 \/ path[i] > 255

\* the test with the upper end of the range left open: U+0100 passes
INVALID_PATH_REGEX_NoUpperEnd(path) ==
  \E i \in 1..Len(path) : path[i] < 33

\* /[^!-ÿ]/.test(path)
INVALID_PATH_REGEX(path) ==
  \E i \in 1..Len(path) : path[i] < 33 \/ path[i] > 255

\* ------------------------------------------------------- response headers
\* content-encoding values of the transport; << >> stands for a missing header
ContentEncodings ==
  { << >>, <<"g","z","i","p">>, <<"G","Z","i","p">>, <<"x","-","d","e","f","l","a","t","e">>, <<"b","r">> }

LowerChar(ch) ==
  CASE ch = "G" -> "g"
    [] ch = "Z" -> "z"
    [] OTHER -> ch

\* String.prototype.toLowerCase
toLowerCase(s) == [i \in 1..Len(s) |-> LowerChar(s[i])]

\* String.prototype.includes
includes(s, sub) ==
  \E i \in 0..(Len(s) - Len(sub)) : SubSeq(s, i + 1, i + Len(sub)) = sub

Gzip == <<"g","z","i","p">>
Deflate == <<"d","e","f","l","a","t","e">>

\* the two includes on the header as received, without toLowerCase
isCompressed_CaseSensitive(ce) ==
  includes(ce, Gzip) \/ includes(ce, Deflate)

\* (response.headers['content-encoding'] ?? '').toLowerCase(), then the two includes
isCompressed(ce) ==
  LET contentEncoding == toLowerCase(ce)
  IN includes(contentEncoding, Gzip) \/ includes(contentEncoding, Deflate)

\* content-length header values: a decimal digit string, "" or a non-number.
\* "undefined" stands for a missing header.
ContentLengths == {"undefined", "", "x", "0", "1", "2", "3", "4"}

\* Number(header); NaN is modelled as -1 guarded by IsNaN (every > with NaN is false)
IsNaN(cl) == cl = "x"
Number(cl) ==
  CASE cl = "" -> 0
    [] cl = "0" -> 0
    [] cl = "1" -> 1
    [] cl = "2" -> 2
    [] cl = "3" -> 3
    [] cl = "4" -> 4
    [] OTHER -> 0 - 1

GreaterThan(cl, limit) == ~IsNaN(cl) /\ Number(cl) > limit

\* -------------------------------------------------------------------- state
VARIABLES
  timeout,      \* this.timeout, the connection default (also headersTimeout/bodyTimeout)
  limits,       \* the values of MAX_BUFFER_LENGTH and MAX_STRING_LENGTH in this runtime
  ctor,         \* the constructor's options and what the constructor did
  pool,         \* the owned Pool and the close() calls made on the Connection
  call          \* per request() call: its locals and what happened to it

vars == <<timeout, limits, ctor, pool, call>>

NewCall ==
  [ phase |-> "idle",          \* idle | headers | body | done
    path |-> << >>,            \* requestParams.path
    timeoutSet |-> FALSE,      \* params.timeout != null
    ptimeout |-> 0,            \* params.timeout
    hasAC |-> FALSE,           \* params.abortController?.signal != null
    acAborted |-> FALSE,       \* params.abortController.signal.aborted
    timer |-> "none",          \* timeoutId: none | armed | fired | cleared
    timedout |-> FALSE,
    triggered |-> "none",      \* what the timer callback triggered: none | ac | emitter
    signal |-> "none",         \* requestParams.signal: none | ac | emitter
    elapsed |-> 0,             \* time spent awaiting pool.request (not kept once it resolved)
    nreq |-> 0,                \* this.pool.request invocations of this call
    afterClose |-> FALSE,      \* the call was issued after close()
    reqAborted |-> "none",     \* pending transport request aborted by: none | caller | ownTimer | otherTimer
    errCode |-> "",            \* err.code of the rejection handled by the catch
    nclass |-> 0,              \* errors request() built and threw for this call
    message |-> "",            \* message of the error thrown by the two catches
    outcome |-> "",            \* "" | ok | TypeError | TimeoutError | RequestAbortedError | ConnectionError
    ce |-> << >>,              \* response.headers['content-encoding']
    cl |-> "undefined",        \* response.headers['content-length']
    destroyed |-> 0,           \* response.body.destroy() calls
    deser |-> 0,               \* diagnostic.emit('deserialization') calls
    arrived |-> << >>,         \* the chunks response.body has yielded, in order
    payload |-> << >>,         \* payload: the Buffer[] of the compressed branch, the string of the other
    body |-> "none",           \* representation returned: none | buffer | string
    bodyValue |-> << >> ]      \* the bytes of the buffer, or the code units of the string, returned

\* options of opts.agent that belong to the http.Agent strategy, and one of undici
ReservedAgentKeys ==
  {"keepAlive", "keepAliveMsecs", "maxSockets", "maxFreeSockets", "scheduling", "proxy"}
AgentKeys == ReservedAgentKeys \cup {"connections"}

\* isUndiciAgentOptions without the test of opts.scheduling
isUndiciAgentOptions_NoScheduling(keys) ==
  IF "keepAlive" \in keys THEN FALSE
  ELSE IF "keepAliveMsecs" \in keys THEN FALSE
  ELSE IF "maxSockets" \in keys THEN FALSE
  ELSE IF "maxFreeSockets" \in keys THEN FALSE
  ELSE IF "proxy" \in keys THEN FALSE
  ELSE TRUE

\* isUndiciAgentOptions(opts), keys being the options of opts that are != null
isUndiciAgentOptions(keys) ==
  IF "keepAlive" \in keys THEN FALSE
  ELSE IF "keepAliveMsecs" \in keys THEN FALSE
  ELSE IF "maxSockets" \in keys THEN FALSE
  ELSE IF "maxFreeSockets" \in keys THEN FALSE
  ELSE IF "scheduling" \in keys THEN FALSE
  ELSE IF "proxy" \in keys THEN FALSE
  ELSE TRUE

\* the message of the ConfigurationError the constructor throws, "" when it throws none
ConstructorError(proxy, agent, keys) ==
  IF proxy # "null" THEN "Undici connection can't work with proxies"
  ELSE IF agent \in {"function", "boolean"}
    THEN "Undici connection agent options can't be a function or a boolean"
  ELSE IF agent # "null" /\ ~isUndiciAgentOptions(keys)
    THEN "Bad agent configuration for Undici agent"
  ELSE ""

\* a Connection built from options the constructor accepts
Constructed ==
  [ state |-> "constructed",   \* new | constructed | failed
    proxy |-> "null",          \* opts.proxy: null | set
    agent |-> "null",          \* opts.agent: null | function | boolean | object
    keys |-> {},               \* the options of an object opts.agent that are != null
    error |-> "",              \* the error thrown: "" | ConfigurationError
    message |-> "",
    pools |-> 1 ]              \* new Pool() calls

Init ==
  /\ timeout \in 1..MaxTimeout
  /\ limits = [buffer |-> MAX_BUFFER_LENGTH, string |-> MAX_STRING_LENGTH]
  /\ ctor = Constructed
  /\ pool = [ closed |-> FALSE,      \* pool.close() was called
              requests |-> 0,        \* pool.request() invocations
              closeCalls |-> 0,      \* close() invocations
              closing |-> FALSE,     \* some close() still awaits pool.close()
              closeThrows |-> 0 ]    \* close() invocations that threw
  /\ call = [c \in Calls |-> NewCall]

InFlight(c) == call[c].phase \in {"headers", "body"}

\* requestParams.signal: the caller's signal, else the Connection's emitter
UsesEmitter(c) == ~call[c].hasAC

\* signal: params.abortController?.signal ?? this[kEmitter]
Signal(hasAC) == IF hasAC THEN "ac" ELSE "emitter"

\* a timer callback that always emits 'abort' on this[kEmitter]
TimerTarget_AlwaysEmitter(hasAC) == "emitter"

\* what the timer callback triggers: params.abortController.abort(), else
\* this[kEmitter].emit('abort')
TimerTarget(hasAC) == IF hasAC THEN "ac" ELSE "emitter"

\* the two branches of the content-length guard
TooBigForBuffer(ce, cl) ==
  cl # "undefined" /\ isCompressed(ce) /\ GreaterThan(cl, limits.buffer)

\* the second branch comparing with the wrong ceiling
TooBigForString_BufferCeiling(ce, cl) ==
  cl # "undefined" /\ ~TooBigForBuffer(ce, cl) /\ GreaterThan(cl, limits.buffer)

\* the second branch taken for uncompressed responses only
TooBigForString_TextOnly(ce, cl) ==
  cl # "undefined" /\ ~isCompressed(ce) /\ GreaterThan(cl, limits.string)

TooBigForString(ce, cl) ==
  cl # "undefined" /\ ~TooBigForBuffer(ce, cl) /\ GreaterThan(cl, limits.string)

\* a 'deserialization' event emitted before the content-length guard
EmitsDeserialization_BeforeGuard(tooBig) == TRUE

\* this.diagnostic.emit('deserialization', ...) follows the guard, whose two
\* branches throw: it runs when neither branch was taken
EmitsDeserialization(tooBig) == ~tooBig

\* the timer armed whenever params.timeout is set
ArmsTimer_WheneverSet(timeoutSet, ptimeout) == timeoutSet

\* params.timeout != null && params.timeout !== this.timeout
ArmsTimer(timeoutSet, ptimeout) == timeoutSet /\ ptimeout # timeout

\* chunks the body stream may yield, as bytes: "a", and U+00E9 in UTF-8
Chunks == {<<97>>, <<195, 169>>}

\* what response.body.setEncoding('utf8') makes of a chunk of whole characters
RECURSIVE Utf8Decode(_)
Utf8Decode(bytes) ==
  IF bytes = << >> THEN << >>
  ELSE IF bytes[1] < 128
    THEN <<bytes[1]>> \o Utf8Decode(Tail(bytes))
  ELSE IF bytes[1] >= 192 /\ bytes[1] < 224 /\ Len(bytes) >= 2
    THEN <<(bytes[1] - 192) * 64 + (bytes[2] - 128)>> \o Utf8Decode(Tail(Tail(bytes)))
  ELSE <<65533>> \o Utf8Decode(Tail(bytes))

\* Buffer.concat(payload)
RECURSIVE BufferConcat(_)
BufferConcat(list) ==
  IF list = << >> THEN << >> ELSE Head(list) \o BufferConcat(Tail(list))

\* payload.push(chunk) in the compressed branch, payload += chunk in the other
Accumulate(compressed, payload, chunk) ==
  IF compressed THEN Append(payload, chunk) ELSE payload \o Utf8Decode(chunk)

\* the pending transport request of c listens on its signal
Listening(c) == InFlight(c)

\* The requests that receive 'abort' when the timer callback of c runs:
\* params.abortController.abort() reaches the request given that controller's
\* signal; this[kEmitter].emit('abort') reaches every request given the emitter.
AbortTargets(c) ==
  IF TimerTarget(call[c].hasAC) = "ac"
    THEN {d \in Calls : d = c /\ Listening(d)}
    ELSE {d \in Calls : UsesEmitter(d) /\ Listening(d)}

\* the switch without the timedout test: every abort is "Request aborted"
Classify_IgnoresTimedout(code, timedout) ==
  CASE code = "UND_ERR_ABORTED" -> "RequestAbortedError"
    [] code = "UND_ERR_HEADERS_TIMEOUT" -> "TimeoutError"
    [] OTHER -> "ConnectionError"

\* the switch reporting every abort as a timeout
Classify_AbortIsTimeout(code, timedout) ==
  CASE code = "UND_ERR_ABORTED" -> "TimeoutError"
    [] code = "UND_ERR_HEADERS_TIMEOUT" -> "TimeoutError"
    [] OTHER -> "ConnectionError"

\* a switch whose default case throws nothing
Classify_SilentDefault(code, timedout) ==
  CASE code = "UND_ERR_ABORTED" ->
         IF timedout THEN "TimeoutError" ELSE "RequestAbortedError"
    [] code = "UND_ERR_HEADERS_TIMEOUT" -> "TimeoutError"
    [] OTHER -> ""

\* switch (err.code) of the header-phase catch
Classify(code, timedout) ==
  CASE code = "UND_ERR_ABORTED" ->
         IF timedout THEN "TimeoutError" ELSE "RequestAbortedError"
    [] code = "UND_ERR_HEADERS_TIMEOUT" -> "TimeoutError"
    [] OTHER -> "ConnectionError"

\* err.message of the errors the transport rejects or fails with
ErrMessage(code) ==
  CASE code = "UND_ERR_ABORTED" -> "Request aborted"
    [] code = "UND_ERR_HEADERS_TIMEOUT" -> "Headers Timeout Error"
    [] code = "UND_ERR_BODY_TIMEOUT" -> "Body Timeout Error"
    [] code = "UND_ERR_CLOSED" -> "The client is closed"
    [] OTHER -> "other side closed"

\* the message given to the error thrown by the header-phase catch
ClassifyMessage(code, timedout) ==
  CASE code = "UND_ERR_ABORTED" ->
         IF timedout THEN "Request timed out" ELSE "Request aborted"
    [] code = "UND_ERR_HEADERS_TIMEOUT" -> "Request timed out"
    [] OTHER -> ErrMessage(code)

\* a body catch that tells an aborted stream from the other failures
ClassifyBody_AbortAware(code) ==
  IF code = "UND_ERR_ABORTED" THEN "RequestAbortedError" ELSE "ConnectionError"

\* catch of the body loop
ClassifyBody(code) == "ConnectionError"

\* a clearTimeout that leaves the timer pending
clearTimeout_Noop(timer) == timer

\* if (timeoutId != null) clearTimeout(timeoutId)
clearTimeout(timer) == IF timer = "armed" THEN "cleared" ELSE timer

\* what pool.request can reject with for the pending request of c
RejectCodes(c) ==
  IF call[c].reqAborted # "none" THEN {"UND_ERR_ABORTED"}
  ELSE {"UND_ERR_SOCKET"} \cup
       (IF call[c].elapsed >= timeout THEN {"UND_ERR_HEADERS_TIMEOUT"} ELSE {})

\* what pool.request rejects with, at once, when the pool has been closed
ClosedPoolCode == "UND_ERR_CLOSED"

\* what the body stream can fail with
BodyErrorCodes(c) ==
  IF call[c].reqAborted # "none" THEN {"UND_ERR_ABORTED"}
  ELSE {"UND_ERR_SOCKET", "UND_ERR_BODY_TIMEOUT"}

\* a close() that refuses to run on a Connection already closed
CloseThrows_WhenClosed(p) == p.closed

\* whether close() itself throws before or after awaiting pool.close()
CloseThrows(p) == FALSE

\* ------------------------------------------------------------------ actions
\* new Connection(opts): the three checks, then the emitter and the Pool
Construct ==
  /\ ctor.state = "new"
  /\ LET err == ConstructorError(ctor.proxy, ctor.agent, ctor.keys)
     IN ctor' = IF err # ""
                  THEN [ctor EXCEPT !.state = "failed",
                                    !.error = "ConfigurationError",
                                    !.message = err]
                  ELSE [ctor EXCEPT !.state = "constructed", !.pools = @ + 1]
  /\ UNCHANGED <<timeout, limits, pool, call>>

\* request(): the synchronous part up to `await this.pool.request(requestParams)`;
\* on a closed pool the rejection follows before any timer or I/O callback can
\* run, so the catch is part of the same step
Request(c, paths, querystrings) ==
  /\ call[c].phase = "idle"
  /\ \A d \in Calls : d < c => call[d].phase # "idle"
  /\ \E path \in paths, qsNull \in BOOLEAN, qs \in querystrings,
        timeoutSet \in BOOLEAN, hasAC \in BOOLEAN :
       \E pt \in (IF timeoutSet THEN 1..MaxTimeout ELSE {0}) :
         LET fp == FinalPath(path, qsNull, qs)
             armed == ArmsTimer(timeoutSet, pt)
             started == [call[c] EXCEPT !.path = fp,
                                        !.timeoutSet = timeoutSet,
                                        !.ptimeout = pt,
                                        !.hasAC = hasAC,
                                        !.signal = Signal(hasAC),
                                        !.afterClose = pool.closed,
                                        !.timer = IF armed THEN "armed" ELSE "none"]
         IN /\ (qsNull => qs = << >>)
            /\ IF INVALID_PATH_REGEX(fp)
                 THEN /\ call' = [call EXCEPT ![c] =
                             [started EXCEPT !.phase = "done", !.nclass = @ + 1,
                                             !.outcome = "TypeError"]]
                      /\ UNCHANGED pool
                 ELSE /\ call' = [call EXCEPT ![c] =
                             IF pool.closed
                               THEN [started EXCEPT !.nreq = @ + 1,
                                                    !.timer = clearTimeout(@),
                                                    !.errCode = ClosedPoolCode,
                                                    !.nclass = @ + 1,
                                                    !.outcome = Classify(ClosedPoolCode, FALSE),
                                                    !.message = ClassifyMessage(ClosedPoolCode, FALSE),
                                                    !.phase = "done"]
                               ELSE [started EXCEPT !.nreq = @ + 1,
                                                    !.phase = "headers"]]
                      /\ pool' = [pool EXCEPT !.requests = @ + 1]
  /\ UNCHANGED <<timeout, limits, ctor>>

\* the setTimeout callback of call c
TimerFires(c) ==
  /\ call[c].timer = "armed"
  /\ call[c].elapsed >= call[c].ptimeout
  /\ LET targets == AbortTargets(c)
         mark(d, r) == IF d \in targets /\ r.reqAborted = "none"
                         THEN [r EXCEPT !.reqAborted = IF d = c THEN "ownTimer" ELSE "otherTimer"]
                         ELSE r
     IN call' = [d \in Calls |->
                   IF d = c
                     THEN mark(d, [call[d] EXCEPT !.timedout = TRUE,
                                                  !.timer = "fired",
                                                  !.triggered = TimerTarget(call[d].hasAC),
                                                  !.acAborted = (TimerTarget(call[d].hasAC) = "ac") \/ @])
                     ELSE mark(d, call[d])]
  /\ UNCHANGED <<timeout, limits, ctor, pool>>

\* the caller aborts the controller it passed as params.abortController
CallerAborts(c) ==
  /\ call[c].hasAC
  /\ ~call[c].acAborted
  /\ InFlight(c)
  /\ call' = [call EXCEPT ![c].acAborted = TRUE,
                          ![c].reqAborted = IF Listening(c) /\ @ = "none" THEN "caller" ELSE @]
  /\ UNCHANGED <<timeout, limits, ctor, pool>>

\* pool.request resolved: clearTimeout, content-length guard, 'deserialization'
PoolResolves(c, encodings, lengths) ==
  /\ call[c].phase = "headers"
  /\ call[c].reqAborted = "none"
  /\ \E ce \in encodings, cl \in lengths :
       LET got == [call[c] EXCEPT !.timer = clearTimeout(@), !.elapsed = 0, !.ce = ce, !.cl = cl]
           tooBig == TooBigForBuffer(ce, cl) \/ TooBigForString(ce, cl)
           emitted == IF EmitsDeserialization(tooBig) THEN 1 ELSE 0
       IN IF tooBig
            THEN call' = [call EXCEPT ![c] =
                     [got EXCEPT !.destroyed = @ + 1,
                                 !.deser = @ + emitted,
                                 !.nclass = @ + 1,
                                 !.outcome = "RequestAbortedError",
                                 !.phase = "done"]]
            ELSE call' = [call EXCEPT ![c] =
                     [got EXCEPT !.deser = @ + emitted, !.phase = "body"]]
  /\ UNCHANGED <<timeout, limits, ctor, pool>>

\* pool.request rejected: clearTimeout, then the switch on err.code
PoolRejects(c) ==
  /\ call[c].phase = "headers"
  /\ \E code \in RejectCodes(c) :
       call' = [call EXCEPT ![c].timer = clearTimeout(@),
                            ![c].errCode = code,
                            ![c].nclass = @ + 1,
                            ![c].outcome = Classify(code, call[c].timedout),
                            ![c].message = ClassifyMessage(code, call[c].timedout),
                            ![c].phase = "done"]
  /\ UNCHANGED <<timeout, limits, ctor, pool>>

\* one iteration of `for await (const chunk of response.body)`
BodyChunk(c, chunks) ==
  /\ call[c].phase = "body"
  /\ call[c].reqAborted = "none"
  /\ Len(call[c].arrived) < MaxChunks
  /\ \E chunk \in chunks :
       call' = [call EXCEPT ![c].arrived = Append(@, chunk),
                            ![c].payload = Accumulate(isCompressed(call[c].ce), @, chunk)]
  /\ UNCHANGED <<timeout, limits, ctor, pool>>

\* the body stream ended: return { statusCode, headers, body }
BodyEnds(c) ==
  /\ call[c].phase = "body"
  /\ call[c].reqAborted = "none"
  /\ call' = [call EXCEPT ![c].outcome = "ok",
                          ![c].body = IF isCompressed(call[c].ce) THEN "buffer" ELSE "string",
                          ![c].bodyValue = IF isCompressed(call[c].ce)
                                             THEN BufferConcat(call[c].payload)
                                             ELSE call[c].payload,
                          ![c].phase = "done"]
  /\ UNCHANGED <<timeout, limits, ctor, pool>>

\* the body stream failed: catch (err) { throw new ConnectionError(err.message) }
BodyFails(c) ==
  /\ call[c].phase = "body"
  /\ \E code \in BodyErrorCodes(c) :
       call' = [call EXCEPT ![c].errCode = code,
                            ![c].nclass = @ + 1,
                            ![c].outcome = ClassifyBody(code),
                            ![c].message = ErrMessage(code),
                            ![c].phase = "done"]
  /\ UNCHANGED <<timeout, limits, ctor, pool>>

\* close(): up to `await this.pool.close()`
Close ==
  /\ pool.closeCalls < MaxCloses
  /\ pool' = [pool EXCEPT !.closeCalls = @ + 1,
                          !.closed = TRUE,
                          !.closing = ~CloseThrows(pool),
                          !.closeThrows = IF CloseThrows(pool) THEN @ + 1 ELSE @]
  /\ UNCHANGED <<timeout, limits, ctor, call>>

\* pool.close() resolved once the pending requests have drained: every close()
\* awaiting it returns
CloseReturns ==
  /\ pool.closing
  /\ \A c \in Calls : ~Listening(c)
  /\ pool' = [pool EXCEPT !.closing = FALSE]
  /\ UNCHANGED <<timeout, limits, ctor, call>>

\* time passes for every call that awaits pool.request or has a timer armed; an armed
\* timer that is due runs before time passes further
Ticking(c) == call[c].phase = "headers" \/ call[c].timer = "armed"

Tick ==
  /\ \E c \in Calls : Ticking(c) /\ call[c].elapsed < MaxTimeout
  /\ \A c \in Calls : call[c].timer = "armed" => call[c].elapsed < call[c].ptimeout
  /\ call' = [c \in Calls |->
                IF Ticking(c) /\ call[c].elapsed < MaxTimeout
                  THEN [call[c] EXCEPT !.elapsed = @ + 1]
                  ELSE call[c]]
  /\ UNCHANGED <<timeout, limits, ctor, pool>>

\* Concurrent calls on one Connection, with one input of each kind:
\* a well-formed and a malformed path, a response within and one over the ceilings.
SomePaths == {<<33>>, <<32>>}
SomeQueryStrings == {<< >>}
SomeEncodings == {<< >>}
SomeLengths == {"undefined", "4"}
SomeChunks == {<<97>>}

Next ==
  \/ \E c \in Calls : Request(c, SomePaths, SomeQueryStrings)
  \/ \E c \in Calls : TimerFires(c)
  \/ \E c \in Calls : CallerAborts(c)
  \/ \E c \in Calls : PoolResolves(c, SomeEncodings, SomeLengths)
  \/ \E c \in Calls : PoolRejects(c)
  \/ \E c \in Calls : BodyChunk(c, SomeChunks)
  \/ \E c \in Calls : BodyEnds(c)
  \/ \E c \in Calls : BodyFails(c)
  \/ Close
  \/ CloseReturns
  \/ Tick

Spec == Init /\ [][Next]_vars

\* The transport settles every pending request and every body stream ends or
\* fails: the promise of pool.request is eventually resolved or rejected, and
\* the iteration over response.body eventually finishes or throws.
TransportFairness ==
  \A c \in Calls :
    /\ WF_vars(PoolResolves(c, SomeEncodings, SomeLengths) \/ PoolRejects(c))
    /\ WF_vars(BodyEnds(c) \/ BodyFails(c))

\* One call at a time, its transport being fair.
NextLive ==
  \/ Request(1, SomePaths, SomeQueryStrings)
  \/ TimerFires(1)
  \/ CallerAborts(1)
  \/ PoolResolves(1, SomeEncodings, SomeLengths)
  \/ PoolRejects(1)
  \/ BodyChunk(1, SomeChunks)
  \/ BodyEnds(1)
  \/ BodyFails(1)
  \/ Close
  \/ CloseReturns
  \/ Tick

SpecLive == Init /\ [][NextLive]_vars /\ TransportFairness

\* One call at a time, with every path, querystring and response header of the
\* bounded sets.
NextData ==
  \/ Request(1, Paths, QueryStrings)
  \/ TimerFires(1)
  \/ CallerAborts(1)
  \/ PoolResolves(1, ContentEncodings, ContentLengths)
  \/ PoolRejects(1)
  \/ BodyChunk(1, SomeChunks)
  \/ BodyEnds(1)
  \/ BodyFails(1)
  \/ Close
  \/ CloseReturns
  \/ Tick

SpecData == Init /\ [][NextData]_vars

\* The constructor alone, on every combination of the options it inspects.
InitConstruct ==
  /\ timeout \in 1..MaxTimeout
  /\ limits = [buffer |-> MAX_BUFFER_LENGTH, string |-> MAX_STRING_LENGTH]
  /\ \E proxy \in {"null", "set"}, agent \in {"null", "function", "boolean", "object"},
        keys \in SUBSET AgentKeys :
       /\ (agent # "object" => keys = {})
       /\ ctor = [Constructed EXCEPT !.state = "new", !.proxy = proxy, !.agent = agent,
                                     !.keys = keys, !.pools = 0]
  /\ pool = [closed |-> FALSE, requests |-> 0, closeCalls |-> 0, closing |-> FALSE, closeThrows |-> 0]
  /\ call = [c \in Calls |-> NewCall]

NextConstruct == Construct

SpecConstruct == InitConstruct /\ [][NextConstruct]_vars

\* One call at a time, with every content-encoding and every chunk of the
\* bounded sets.
NextBody ==
  \/ Request(1, SomePaths, SomeQueryStrings)
  \/ TimerFires(1)
  \/ CallerAborts(1)
  \/ PoolResolves(1, ContentEncodings, SomeLengths)
  \/ PoolRejects(1)
  \/ BodyChunk(1, Chunks)
  \/ BodyEnds(1)
  \/ BodyFails(1)
  \/ Close
  \/ CloseReturns
  \/ Tick

SpecBody == Init /\ [][NextBody]_vars

\* One call at a time on a runtime whose two ceilings are any pair of values,
\* with every content-length and both kinds of content-encoding.
CeilingEncodings == {<< >>, Gzip}

InitCeilings ==
  /\ timeout \in 1..MaxTimeout
  /\ limits \in [buffer : 1..MaxCeiling, string : 1..MaxCeiling]
  /\ ctor = Constructed
  /\ pool = [closed |-> FALSE, requests |-> 0, closeCalls |-> 0, closing |-> FALSE, closeThrows |-> 0]
  /\ call = [c \in Calls |-> NewCall]

NextCeilings ==
  \/ Request(1, SomePaths, SomeQueryStrings)
  \/ TimerFires(1)
  \/ CallerAborts(1)
  \/ PoolResolves(1, CeilingEncodings, ContentLengths)
  \/ PoolRejects(1)
  \/ BodyChunk(1, SomeChunks)
  \/ BodyEnds(1)
  \/ BodyFails(1)
  \/ Close
  \/ CloseReturns
  \/ Tick

SpecCeilings == InitCeilings /\ [][NextCeilings]_vars

\* ------------------------------------------------------------------ claims
Override(c) == call[c].timeoutSet /\ call[c].ptimeout # timeout

\* C1: the firing of one call's timer never aborts the pending transport
\* request of another call, also when both use the Connection-internal signal.
C1_TimerAffectsOnlyItsCall ==
  \A c \in Calls : call[c].reqAborted # "otherTimer"

\* C2: a call whose timeout override differs from the default and whose timer
\* ran while the transport had not responded ends with TimeoutError, never
\* with another outcome, and its external controller, if any, is aborted;
\* an armed timer is never left pending past its duration.
C2_OverrideTimesOut ==
  \A c \in Calls :
    /\ (call[c].timer = "armed" => call[c].elapsed <= call[c].ptimeout)
    /\ (Override(c) /\ call[c].nreq > 0 /\ call[c].timedout) =>
         /\ call[c].phase \in {"headers", "done"}
         /\ (call[c].phase = "done" => call[c].outcome = "TimeoutError")
         /\ (call[c].hasAC => call[c].acAborted)

C2_Witness ==
  \E c, d \in Calls :
    /\ c # d
    /\ Override(c) /\ call[c].hasAC /\ call[c].acAborted
    /\ call[c].timedout
    /\ call[c].phase = "done" /\ call[c].outcome = "TimeoutError"
    /\ call[c].errCode = "UND_ERR_ABORTED"
    /\ InFlight(d)

\* the failure was handled by the catch around pool.request
HeaderPhaseFailure(c) ==
  call[c].phase = "done" /\ call[c].errCode # "" /\ call[c].deser = 0

\* C3: a transport failure is classified by its category: UND_ERR_ABORTED is
\* TimeoutError exactly when the call's own timer had fired, otherwise
\* RequestAbortedError; UND_ERR_HEADERS_TIMEOUT is TimeoutError; anything else
\* is ConnectionError; a call that armed no timer never gets TimeoutError on
\* an abort.
C3_ClassifiedByCategory ==
  \A c \in Calls :
    HeaderPhaseFailure(c) =>
      /\ call[c].errCode = "UND_ERR_ABORTED" =>
           /\ call[c].outcome \in {"TimeoutError", "RequestAbortedError"}
           /\ (call[c].outcome = "TimeoutError") = call[c].timedout
           /\ (call[c].timer = "none" => call[c].outcome = "RequestAbortedError")
      /\ call[c].errCode = "UND_ERR_HEADERS_TIMEOUT" => call[c].outcome = "TimeoutError"
      /\ call[c].errCode \notin {"UND_ERR_ABORTED", "UND_ERR_HEADERS_TIMEOUT"} =>
           call[c].outcome = "ConnectionError"

C3_Witness ==
  \E c, d \in Calls :
    /\ c # d
    /\ HeaderPhaseFailure(c) /\ HeaderPhaseFailure(d)
    /\ call[c].errCode = "UND_ERR_ABORTED" /\ call[c].timer = "none"
    /\ call[c].outcome = "RequestAbortedError"
    /\ call[d].errCode = "UND_ERR_ABORTED" /\ call[d].timedout
    /\ call[d].outcome = "TimeoutError"

\* the final path holds a code unit outside 0x21-0xFF
OutsideRange(path) == \E i \in DOMAIN path : path[i] \notin 33..255

\* C4: a call whose final path holds a character outside 0x21-0xFF fails
\* with the malformed-path error and pool.request is never invoked for it.
C4_BadPathNeverReachesTransport ==
  \A c \in Calls :
    (call[c].phase # "idle" /\ OutsideRange(call[c].path)) =>
      /\ call[c].phase = "done"
      /\ call[c].outcome = "TypeError"
      /\ call[c].nreq = 0
      /\ pool.requests = 0

C4_Witness ==
  \E c \in Calls :
    /\ call[c].phase = "done" /\ call[c].outcome = "TypeError"
    /\ Len(call[c].path) = 3
    /\ call[c].path[1] \in 33..255
    /\ call[c].path[3] \notin 33..255

\* C5: once close() has been invoked, pool.request is not invoked again.
C5_NoRequestAfterClose ==
  [][pool.closed => pool'.requests = pool.requests]_vars

\* C6: a call whose params.timeout is unset or equals the connection default
\* arms no timer: it is never marked timed out and triggers no signal.
C6_NoTimerWithoutOverride ==
  \A c \in Calls :
    (call[c].phase # "idle" /\ ~Override(c)) =>
      /\ call[c].timer = "none"
      /\ ~call[c].timedout
      /\ call[c].triggered = "none"

C6_Witness ==
  \E c \in Calls :
    /\ call[c].timeoutSet /\ call[c].ptimeout = timeout
    /\ call[c].phase = "headers"
    /\ call[c].elapsed >= call[c].ptimeout
    /\ call[c].timer = "none"

\* C7: a call cancelled by the caller through its external controller while
\* suspended, at pool.request or in the body loop, whose timer has not fired,
\* fails with RequestAbortedError.
C7_CallerAbortIsRequestAborted ==
  \A c \in Calls :
    (call[c].phase = "done" /\ call[c].reqAborted = "caller" /\ ~call[c].timedout) =>
      call[c].outcome = "RequestAbortedError"

\* the declared content-length is a number above the ceiling of the branch
ExceedsCeiling(c) ==
  /\ call[c].cl \notin {"undefined", "x"}
  /\ Number(call[c].cl) >
       (IF isCompressed(call[c].ce) THEN MAX_BUFFER_LENGTH ELSE MAX_STRING_LENGTH)

\* C8: a response whose declared content-length exceeds the applicable
\* ceiling ends the call with RequestAbortedError, the body destroyed exactly
\* once, no chunk read and no 'deserialization' event.
C8_OversizeRejectedUnread ==
  \A c \in Calls :
    ExceedsCeiling(c) =>
      /\ call[c].phase = "done"
      /\ call[c].outcome = "RequestAbortedError"
      /\ call[c].destroyed = 1
      /\ call[c].payload = << >>
      /\ call[c].body = "none"
      /\ call[c].deser = 0

C8_Witness ==
  \E c \in Calls :
    /\ ExceedsCeiling(c)
    /\ ~isCompressed(call[c].ce)
    /\ Number(call[c].cl) <= MAX_BUFFER_LENGTH
    /\ call[c].outcome = "RequestAbortedError"
    /\ call[c].destroyed = 1

\* C9: a call with a timeout override is not failed with TimeoutError before
\* the override duration has elapsed.
C9_OverrideIsEffectiveTimeout ==
  \A c \in Calls :
    (Override(c) /\ call[c].outcome = "TimeoutError") =>
      call[c].elapsed >= call[c].ptimeout

CompressedEncodings ==
  { <<"g","z","i","p">>, <<"G","Z","i","p">>, <<"x","-","d","e","f","l","a","t","e">> }

\* the bytes of the chunks, one after the other in arrival order
RECURSIVE InArrivalOrder(_)
InArrivalOrder(chunks) ==
  IF chunks = << >> THEN << >>
  ELSE chunks[1] \o InArrivalOrder(SubSeq(chunks, 2, Len(chunks)))

\* the characters of the chunks, one after the other in arrival order
RECURSIVE DecodedInArrivalOrder(_)
DecodedInArrivalOrder(chunks) ==
  IF chunks = << >> THEN << >>
  ELSE (IF chunks[1] = <<195, 169>> THEN <<233>> ELSE chunks[1])
         \o DecodedInArrivalOrder(SubSeq(chunks, 2, Len(chunks)))

\* C11: a successful call returns a byte buffer, the raw chunks concatenated
\* in arrival order, exactly when the content-encoding holds gzip or deflate
\* in any letter case; otherwise a string, the decoded chunks concatenated in
\* arrival order; a call that did not succeed returns neither.
C11_BodyRepresentation ==
  \A c \in Calls :
    /\ call[c].outcome = "ok" =>
         /\ call[c].body \in {"buffer", "string"}
         /\ (call[c].body = "buffer") = (call[c].ce \in CompressedEncodings)
         /\ call[c].body = "buffer" => call[c].bodyValue = InArrivalOrder(call[c].arrived)
         /\ call[c].body = "string" => call[c].bodyValue = DecodedInArrivalOrder(call[c].arrived)
    /\ call[c].outcome # "ok" => call[c].body = "none" /\ call[c].bodyValue = << >>

C11_Witness ==
  \E c \in Calls :
    /\ call[c].outcome = "ok"
    /\ call[c].ce = <<"G","Z","i","p">>
    /\ call[c].body = "buffer"
    /\ call[c].bodyValue = <<195, 169, 97>>

\* the options name a proxy, an agent that is no plain object, or a reserved option
RejectedOptions ==
  \/ ctor.proxy = "set"
  \/ ctor.agent \in {"function", "boolean"}
  \/ ctor.agent = "object" /\ ctor.keys \cap ReservedAgentKeys # {}

\* C12: constructing with a proxy, with an agent that is a function or a
\* boolean, or with an agent naming a reserved option fails with
\* ConfigurationError and creates no Pool.
C12_BadOptionsCreateNoPool ==
  (ctor.state # "new" /\ RejectedOptions) =>
    /\ ctor.state = "failed"
    /\ ctor.error = "ConfigurationError"
    /\ ctor.pools = 0

C12_Witness ==
  /\ ctor.state = "failed"
  /\ ctor.proxy = "null"
  /\ ctor.agent = "object"
  /\ ctor.keys = {"scheduling", "connections"}
  /\ ctor.pools = 0

\* C13: the path is validated before the timer is armed, so a call that
\* failed with TypeError on a malformed path leaves no timer armed and never
\* has one fire.
C13_NoTimerAfterBadPath ==
  \A c \in Calls :
    call[c].outcome = "TypeError" =>
      /\ call[c].timer = "none"
      /\ call[c].triggered = "none"

\* the transport has reported success or failure for the request of call c
TransportReported(c) == call[c].nreq > 0 /\ call[c].phase \in {"body", "done"}

\* C14: for a call that reached the transport, no timer is pending once the
\* transport has reported success or failure; from then on the timer callback
\* does not run (the call is not marked timed out, nothing is triggered), and
\* a timer that fired or was cleared never fires again.
C14_TimerClearedOnReport ==
  /\ [](\A c \in Calls : TransportReported(c) => call[c].timer # "armed")
  /\ [][\A c \in Calls :
          /\ TransportReported(c) =>
               /\ call'[c].timer = call[c].timer
               /\ call'[c].timedout = call[c].timedout
               /\ call'[c].triggered = call[c].triggered
          /\ (call[c].nreq > 0 /\ call[c].timer \in {"fired", "cleared"}) =>
               call'[c].timer = call[c].timer]_vars

C14_Witness ==
  \E c, d \in Calls :
    /\ call[c].phase = "body" /\ call[c].timer = "cleared" /\ Len(call[c].arrived) > 0
    /\ call[d].phase = "done" /\ call[d].timer = "cleared" /\ call[d].errCode = "UND_ERR_SOCKET"

\* C15: each call is governed by exactly one signal, the caller's when an
\* abortController was supplied and the Connection's emitter otherwise, and
\* the timer of the call triggers that signal and no other.
C15_TimerTriggersTheSignal ==
  \A c \in Calls :
    call[c].phase # "idle" =>
      /\ call[c].signal \in {"ac", "emitter"}
      /\ (call[c].signal = "ac") = call[c].hasAC
      /\ (call[c].timer = "fired") = (call[c].triggered # "none")
      /\ call[c].triggered # "none" => call[c].triggered = call[c].signal
      /\ ~call[c].hasAC => ~call[c].acAborted

C15_Witness ==
  \E c, d \in Calls :
    /\ call[c].hasAC /\ call[c].nreq = 1 /\ call[c].triggered = "ac"
    /\ ~call[d].hasAC /\ call[d].nreq = 1 /\ call[d].triggered = "emitter"

\* the headers of call c arrived and carry a content-length
HeadersWithLength(c) ==
  call[c].cl # "undefined" /\ call[c].deser + call[c].destroyed > 0

ExceedsBufferCeiling(c) == Number(call[c].cl) > limits.buffer
ExceedsStringCeiling(c) == Number(call[c].cl) > limits.string

\* the size check rejected the response of call c before any chunk was read
RejectedUnread(c) ==
  /\ call[c].outcome = "RequestAbortedError"
  /\ call[c].destroyed = 1
  /\ call[c].deser = 0
  /\ call[c].arrived = << >>

\* the size check let the response of call c through
PassedSizeCheck(c) == call[c].destroyed = 0 /\ call[c].deser = 1

BodyPhaseFailure(c) ==
  call[c].phase = "done" /\ call[c].deser = 1 /\ call[c].errCode # ""

\* C17: a failure of the body stream, after the headers arrived and the size
\* check passed, ends the call with ConnectionError carrying the message of
\* the underlying error, in the compressed and in the text branch, and no
\* body is returned; a call that returned a body had no such failure.
C17_BodyFailureIsConnectionError ==
  \A c \in Calls :
    /\ BodyPhaseFailure(c) =>
         /\ call[c].outcome = "ConnectionError"
         /\ call[c].message = ErrMessage(call[c].errCode)
         /\ call[c].body = "none"
         /\ call[c].bodyValue = << >>
    /\ call[c].outcome = "ok" => call[c].errCode = ""

C17_Witness ==
  \E c \in Calls :
    /\ BodyPhaseFailure(c)
    /\ call[c].ce \in CompressedEncodings
    /\ Len(call[c].arrived) = 1
    /\ call[c].errCode = "UND_ERR_BODY_TIMEOUT"
    /\ call[c].outcome = "ConnectionError"

\* C18: 'deserialization' is emitted at most once per call, in the step in
\* which the headers arrive and pass the size check, hence before any chunk
\* is read; a call that ends on the path check, on a transport failure or on
\* the size check never emits it.
C18_DeserializationOnceBeforeBody ==
  /\ [](\A c \in Calls :
          /\ call[c].deser <= 1
          /\ call[c].outcome = "TypeError" => call[c].deser = 0
          /\ call[c].destroyed > 0 => call[c].deser = 0
          /\ call[c].arrived # << >> => call[c].deser = 1)
  /\ [][\A c \in Calls :
          /\ call'[c].deser # call[c].deser =>
               /\ call[c].deser = 0 /\ call'[c].deser = 1
               /\ call[c].phase = "headers" /\ call'[c].phase = "body"
               /\ call[c].nreq = 1
               /\ call'[c].arrived = << >>
          /\ (call[c].phase \in {"idle", "headers"} /\ call'[c].phase = "done") =>
               call'[c].deser = 0
          /\ call'[c].arrived # call[c].arrived => call[c].deser = 1]_vars

C18_Witness ==
  \E c \in Calls :
    /\ call[c].deser = 1
    /\ call[c].cl = "2"
    /\ call[c].ce = << >>
    /\ Len(call[c].arrived) = 1
    /\ call[c].phase = "body"

\* C19: no call invokes pool.request more than once, a call whose path fails
\* the validation never invokes it, every invocation of pool.request belongs
\* to one call, and a call that failed threw exactly one error, whatever the
\* kind of failure; a call that returned threw none.
C19_OneRequestOneClassification ==
  /\ pool.requests = Cardinality({c \in Calls : call[c].nreq = 1})
  /\ \A c \in Calls :
       /\ call[c].nreq <= 1
       /\ (call[c].phase # "idle" /\ OutsideRange(call[c].path)) =>
            call[c].nreq = 0 /\ call[c].outcome = "TypeError"
       /\ call[c].outcome = "TypeError" => call[c].nreq = 0
       /\ InFlight(c) => call[c].nreq = 1 /\ call[c].nclass = 0
       /\ (call[c].phase = "done" /\ call[c].outcome # "ok") =>
            /\ call[c].nclass = 1
            /\ call[c].outcome \in {"TypeError", "TimeoutError",
                                    "RequestAbortedError", "ConnectionError"}
       /\ call[c].outcome = "ok" => call[c].nreq = 1 /\ call[c].nclass = 0

C19_Witness ==
  \E c \in Calls :
    /\ call[c].phase = "done"
    /\ call[c].outcome = "ConnectionError"
    /\ call[c].errCode = "UND_ERR_BODY_TIMEOUT"
    /\ call[c].nreq = 1
    /\ call[c].nclass = 1
    /\ pool.requests = 1

TerminalOutcomes ==
  {"ok", "TypeError", "TimeoutError", "RequestAbortedError", "ConnectionError"}

\* C20: when the transport settles every request and every body stream ends
\* or fails, each call that was issued ends; a call that ended has exactly
\* one outcome, a returned body or one of the four errors and never both, and
\* the outcome of a call never changes.
C20_EveryCallEndsOnce ==
  /\ \A c \in Calls :
       (call[c].phase # "idle") ~> (call[c].phase = "done" /\ call[c].outcome \in TerminalOutcomes)
  /\ [](\A c \in Calls :
          /\ (call[c].phase = "done") = (call[c].outcome # "")
          /\ call[c].phase = "done" => call[c].outcome \in TerminalOutcomes
          /\ call[c].outcome = "ok" =>
               call[c].body # "none" /\ call[c].nclass = 0 /\ call[c].errCode = ""
          /\ (call[c].phase = "done" /\ call[c].outcome # "ok") =>
               call[c].body = "none" /\ call[c].nclass = 1)
  /\ [][\A c \in Calls :
          call[c].phase = "done" =>
            /\ call'[c].phase = "done"
            /\ call'[c].outcome = call[c].outcome
            /\ call'[c].body = call[c].body]_vars

C20_Witness ==
  \E c \in Calls :
    /\ call[c].phase = "done"
    /\ call[c].outcome = "TimeoutError"
    /\ call[c].timedout
    /\ call[c].reqAborted = "ownTimer"

====
